---- MODULE Spec2Model ----
(***************************************************************************)
(* Model of gymnasium/wrappers/vector/rendering.py: the RecordVideo        *)
(* wrapper for vector environments (recording state machine and the        *)
(* exact-tiling grid search).                                              *)
(*                                                                         *)
(* The wrapped vector environment is an external collaborator; it is       *)
(* modelled from its interface: every reset/step produces one per-instant  *)
(* frame; in a single-frame render mode render() returns the latest frame, *)
(* in a list render mode it returns the frames produced since the previous *)
(* render() call and forgets them.  A per-instant frame is either a tuple  *)
(* of num_envs equally shaped sub-frames (ok = TRUE) or something that is  *)
(* neither a tuple nor a list (ok = FALSE).                                *)
(***************************************************************************)
EXTENDS Integers, Sequences, FiniteSets, TLC

\* ------------------------------------------------------------------ bounds
MaxCalls == 4         \* reset, step and start_recording calls in a session of Spec
MaxBadFrames == 1     \* malformed frames the environment produces in a session
MaxLength == 2        \* largest finite video_length
SessionEnvs == 4      \* sub-environments in a session of Spec
MaxShapeEnvs == 6     \* n_frames in the grid search
MaxDim == 2           \* sub-frame height / width in the grid search
MaxRatio == 3         \* components of video_aspect_ratio in the grid search
MaxHumanEnvs == 3
MaxPix == 2
MaxQuits == 2
MaxScreen == 3
RunEpisodes == 50     \* episodes of the episode-by-episode run
MaxEpisodeLen == 2    \* steps per episode of the episode-by-episode run

VARIABLES
  \* configuration fixed by __init__
  render_mode,         \* "single" (rgb_array, depth_array) or "list" (..._list)
  num_envs,            \* number of sub-environments
  frame_shape,         \* <<h, w>> of one sub-frame
  video_aspect_ratio,  \* <<ar_w, ar_h>>
  float_tie,           \* whether an exact tie of two float diffs compares "<"
  episode_trigger,     \* name of the predicate, "none" for None
  step_trigger,
  video_length,        \* 0 stands for float("inf")
  \* RecordVideo's fields
  recording,
  video_name,
  recorded_frames,
  render_history,
  step_id,
  episode_id,
  frame_rows,
  frame_cols,
  \* the wrapped environment
  env_pending,         \* list mode: frames produced since the last render()
  env_current,         \* the latest frame produced
  env_t,               \* frames produced since the last reset
  env_closed,
  env_bad,             \* malformed frames produced so far
  \* the outside world and bookkeeping
  files,               \* what the video encoder was handed, in order
  session,             \* number of start_recording calls so far
  calls,               \* number of reset, step and start_recording calls so far
  \* HumanRendering's fields
  wrapper,             \* which wrapper the session uses: "record" or "human"
  screen_size,         \* <<W, H>>, NoSize for None
  scaled_subenv_size,  \* <<width, height>> of one scaled sub-frame, NoSize for None
  num_rows,            \* 0 for None
  num_cols,            \* 0 for None
  window,              \* whether self.window is not None
  clock,               \* whether self.clock is not None
  hev,                 \* what the last HumanRendering call did: op, the call;
                       \* raised, an assertion failed; laid, it searched the
                       \* layout; quits, the calls of pygame.display.quit()
                       \* so far
  ev                   \* what the last public call did: op, the call; stops, writes,
                       \* warns, how often it stopped a recording, wrote a file,
                       \* warned; cap, what _capture_frame met ("none" when it did
                       \* not run), cap_buffered, the frames buffered when it met a
                       \* malformed frame, cap_writes, the files it then wrote;
                       \* drained, the list _capture_frame got from env.render();
                       \* ret and env_ret, what render() and env.render() returned;
                       \* last, the last of start_recording / stop_recording /
                       \* _capture_frame to return; failed, an assertion failed

cfgvars == <<render_mode, num_envs, frame_shape, video_aspect_ratio, float_tie,
             episode_trigger, step_trigger, video_length>>
humanvars == <<wrapper, screen_size, scaled_subenv_size, num_rows, num_cols,
               window, clock, hev>>
vars == <<render_mode, num_envs, frame_shape, video_aspect_ratio, float_tie,
          episode_trigger, step_trigger, video_length,
          recording, video_name, recorded_frames, render_history, step_id,
          episode_id, frame_rows, frame_cols,
          env_pending, env_current, env_t, env_closed, env_bad,
          files, session, calls, ev,
          wrapper, screen_size, scaled_subenv_size, num_rows, num_cols,
          window, clock, hev>>

\* ------------------------------------------------------------- small helpers
Abs(x) == IF x < 0 THEN -x ELSE x

Last(q) == q[Len(q)]

AllButLast(q) == SubSeq(q, 1, Len(q) - 1)

RECURSIVE isqrt_from(_, _)
isqrt_from(n, k) == IF (k + 1) * (k + 1) > n THEN k ELSE isqrt_from(n, k + 1)

\* int(n_frames ** 0.5)
isqrt(n) == isqrt_from(n, 0)

NoName == [kind |-> "none", idx |-> -1]

EpisodeName(e) == [kind |-> "episode", idx |-> e]

StepName(s) == [kind |-> "step", idx |-> s]

UserName == [kind |-> "user", idx |-> 0]

NoFrame == [ep |-> -1, t |-> -1, ok |-> FALSE]

\* ------------------------------------------------------------------ triggers
\* capped_cubic_video_schedule: cubes below 1000, then every 1000th
capped_cubic_video_schedule(i) ==
  IF i < 1000 THEN \E k \in 0..10 : k * k * k = i ELSE i % 1000 = 0

TriggerNames == {"none", "always", "even", "mod10", "cubic"}

\* `self.x_trigger and self.x_trigger(i)`
trigger(name, i) ==
  CASE name = "none" -> FALSE
    [] name = "always" -> TRUE
    [] name = "even" -> i % 2 = 0
    [] name = "mod10" -> i % 10 = 0
    [] name = "cubic" -> capped_cubic_video_schedule(i)

\* __init__: with neither trigger given the episode trigger is the cubic one
init_episode_trigger(et, st) ==
  IF et = "none" /\ st = "none" THEN "cubic" ELSE et

\* `len(self.recorded_frames) > self.video_length`, video_length 0 being inf
exceeds(n, vl) == IF vl = 0 THEN FALSE ELSE n > vl

\* ------------------------------------------------- exact-tiling grid search
\* |cols*w/(rows*h) - ar_w/ar_h| as the fraction DiffNum / DiffDen
DiffNum(rows, cols, h, w, ar) == Abs(cols * w * ar[2] - ar[1] * rows * h)

DiffDen(rows, h, ar) == rows * h * ar[2]

\* diff(r1, c1) < diff(r2, c2), compared exactly
DiffLess(r1, c1, r2, c2, h, w, ar) ==
  DiffNum(r1, c1, h, w, ar) * DiffDen(r2, h, ar)
    < DiffNum(r2, c2, h, w, ar) * DiffDen(r1, h, ar)

DiffEq(r1, c1, r2, c2, h, w, ar) ==
  DiffNum(r1, c1, h, w, ar) * DiffDen(r2, h, ar)
    = DiffNum(r2, c2, h, w, ar) * DiffDen(r1, h, ar)

\* `diff < min_diff` on floats: exact when the two differ; two diffs that
\* are equal as fractions are computed by different roundings and may
\* compare either way (tie)
better(rows, cols, best, h, w, ar, tie) ==
  \/ best.inf
  \/ DiffLess(rows, cols, best.rows, best.cols, h, w, ar)
  \/ tie /\ DiffEq(rows, cols, best.rows, best.cols, h, w, ar)

RECURSIVE shape_loop_nodivcheck(_, _, _, _, _, _, _)
\* mutant: every rows up to the square root is a candidate, divisor or not
shape_loop_nodivcheck(rows, best, n, h, w, ar, tie) ==
  IF rows > isqrt(n) THEN best
  ELSE IF better(rows, n \div rows, best, h, w, ar, tie)
       THEN shape_loop_nodivcheck(rows + 1,
              [rows |-> rows, cols |-> n \div rows, inf |-> FALSE], n, h, w, ar, tie)
       ELSE shape_loop_nodivcheck(rows + 1, best, n, h, w, ar, tie)

RECURSIVE shape_loop(_, _, _, _, _, _, _)
shape_loop(rows, best, n, h, w, ar, tie) ==
  IF rows > isqrt(n) THEN best
  ELSE IF n % rows = 0 /\ better(rows, n \div rows, best, h, w, ar, tie)
       THEN shape_loop(rows + 1, [rows |-> rows, cols |-> n \div rows, inf |-> FALSE],
                       n, h, w, ar, tie)
       ELSE shape_loop(rows + 1, best, n, h, w, ar, tie)

\* _get_concat_frame_shape: the <<frame_rows, frame_cols>> it sets
get_concat_frame_shape(n, h, w, ar, tie) ==
  LET best == shape_loop(1, [rows |-> 1, cols |-> n, inf |-> TRUE], n, h, w, ar, tie)
  IN  <<best.rows, best.cols>>

\* ------------------------------------------------------- the state as a value
\* The operations below are functions from one such record to the next, so
\* that a handler that calls other methods is the composition of them.
Self ==
  [recording |-> recording, video_name |-> video_name,
   recorded_frames |-> recorded_frames, render_history |-> render_history,
   step_id |-> step_id, episode_id |-> episode_id,
   frame_rows |-> frame_rows, frame_cols |-> frame_cols,
   env_pending |-> env_pending, env_current |-> env_current,
   env_t |-> env_t, env_closed |-> env_closed, env_bad |-> env_bad,
   files |-> files, session |-> session,
   ev |-> [op |-> "init", stops |-> 0, writes |-> 0, warns |-> 0,
           cap |-> "none", cap_buffered |-> 0, cap_writes |-> 0,
           drained |-> <<>>, ret |-> <<>>, env_ret |-> <<>>,
           last |-> "none", failed |-> FALSE]]

Begin(op) == [Self EXCEPT !.ev.op = op]

\* ------------------------------------------------- the wrapped environment
\* env.reset(): a new episode, one frame produced
env_reset(s, ok) ==
  LET f == [ep |-> s.episode_id + 1, t |-> 0, ok |-> ok]
  IN  [s EXCEPT !.env_t = 0, !.env_current = f,
                !.env_bad = IF ok THEN @ ELSE @ + 1,
                !.env_pending = IF render_mode = "list" THEN Append(@, f) ELSE @]

\* env.step(action): one frame produced
env_step(s, ok) ==
  LET f == [ep |-> s.episode_id, t |-> s.env_t + 1, ok |-> ok]
  IN  [s EXCEPT !.env_t = @ + 1, !.env_current = f,
                !.env_bad = IF ok THEN @ ELSE @ + 1,
                !.env_pending = IF render_mode = "list" THEN Append(@, f) ELSE @]

\* env.render(): the value returned
env_render_out(s) ==
  IF render_mode = "list" THEN s.env_pending ELSE <<s.env_current>>

\* env.render(): the environment afterwards
env_render(s) ==
  IF render_mode = "list" THEN [s EXCEPT !.env_pending = <<>>] ELSE s

\* ------------------------------------------------------------- RecordVideo
\* One entry of recorded_frames.  A composed grid frame has kind "grid" and
\* the shape <<frame_rows*h, frame_cols*w>>; kind "raw" is a per-instant
\* render result put into the buffer as it came.  session and episode are
\* the values of the two counters when the entry was appended.
Entry(s, kind, f, shape) ==
  [kind |-> kind, ep |-> f.ep, t |-> f.t, shape |-> shape,
   session |-> s.session, episode |-> s.episode_id]

\* mutant: the per-instant frame is buffered as it came, not composed
concat_frames_raw(s, f) == Entry(s, "raw", f, <<0, 0>>)

\* _concat_frames(frames)
concat_frames(s, f) ==
  Entry(s, "grid", f, <<s.frame_rows * frame_shape[1], s.frame_cols * frame_shape[2]>>)

\* the entries `self.recorded_frames += render_out` adds
raw_entries(s, out) == [i \in 1..Len(out) |-> Entry(s, "raw", out[i], <<0, 0>>)]

\* mutant: the name of the stopped recording is kept
stop_recording_keepname(s) ==
  IF ~s.recording THEN [s EXCEPT !.ev.failed = TRUE]
  ELSE
    LET written ==
          IF Len(s.recorded_frames) = 0
          THEN [s EXCEPT !.ev.warns = @ + 1]
          ELSE [s EXCEPT !.files = Append(@, [name |-> s.video_name,
                                              frames |-> s.recorded_frames]),
                         !.ev.writes = @ + 1]
    IN  [written EXCEPT !.recorded_frames = <<>>,
                        !.recording = FALSE,
                        !.ev.stops = @ + 1,
                        !.ev.last = "stop"]

\* mutant: an empty buffer is handed to the encoder like any other
stop_recording_writesempty(s) ==
  IF ~s.recording THEN [s EXCEPT !.ev.failed = TRUE]
  ELSE
    LET written ==
          [s EXCEPT !.files = Append(@, [name |-> s.video_name,
                                         frames |-> s.recorded_frames]),
                    !.ev.writes = @ + 1]
    IN  [written EXCEPT !.recorded_frames = <<>>,
                        !.recording = FALSE,
                        !.video_name = NoName,
                        !.ev.stops = @ + 1,
                        !.ev.last = "stop"]

\* stop_recording()
stop_recording(s) ==
  IF ~s.recording THEN [s EXCEPT !.ev.failed = TRUE]
  ELSE
    LET written ==
          IF Len(s.recorded_frames) = 0
          THEN [s EXCEPT !.ev.warns = @ + 1]
          ELSE [s EXCEPT !.files = Append(@, [name |-> s.video_name,
                                              frames |-> s.recorded_frames]),
                         !.ev.writes = @ + 1]
    IN  [written EXCEPT !.recorded_frames = <<>>,
                        !.recording = FALSE,
                        !.video_name = NoName,
                        !.ev.stops = @ + 1,
                        !.ev.last = "stop"]

\* mutant: an active recording is not stopped first
start_recording_noflush(s, name) ==
  [s EXCEPT !.recording = TRUE, !.video_name = name,
            !.session = @ + 1, !.ev.last = "start"]

\* start_recording(video_name)
start_recording(s, name) ==
  LET stopped == IF s.recording THEN stop_recording(s) ELSE s
  IN  [stopped EXCEPT !.recording = TRUE, !.video_name = name,
                      !.session = @ + 1, !.ev.last = "start"]

\* mutant: the last entry is kept out of the history
history_after_butlast(history, frame) == history \o AllButLast(frame)

\* the history that `self.render_history += frame` leaves
history_after(history, frame) == history \o frame

\* mutant: a malformed frame is skipped and the recording goes on
capture_frame_nostop(s0) ==
  LET s1  == IF s0.recording THEN s0 ELSE [s0 EXCEPT !.ev.failed = TRUE]
      out == env_render_out(s1)
      s2  == env_render(s1)
  IN  IF render_mode = "list" /\ Len(out) = 0
      THEN [s2 EXCEPT !.ev.warns = @ + 1, !.ev.cap = "empty", !.ev.last = "capture"]
      ELSE
        LET s3 == IF render_mode = "list"
                  THEN [s2 EXCEPT !.render_history = history_after(@, out),
                                  !.ev.drained = out]
                  ELSE s2
            frame == Last(out)
        IN  IF frame.ok
            THEN
              LET shape == get_concat_frame_shape(num_envs, frame_shape[1],
                             frame_shape[2], video_aspect_ratio, float_tie)
                  s4 == IF s3.frame_cols = -1 \/ s3.frame_rows = -1
                        THEN [s3 EXCEPT !.frame_rows = shape[1], !.frame_cols = shape[2]]
                        ELSE s3
              IN  [s4 EXCEPT !.recorded_frames = Append(@, concat_frames(s4, frame)),
                             !.ev.cap = "grid", !.ev.last = "capture"]
            ELSE [s3 EXCEPT !.ev.warns = @ + 1, !.ev.cap = "bad",
                            !.ev.cap_buffered = Len(s3.recorded_frames),
                            !.ev.last = "capture"]

\* _capture_frame()
capture_frame(s0) ==
  LET s1  == IF s0.recording THEN s0 ELSE [s0 EXCEPT !.ev.failed = TRUE]
      out == env_render_out(s1)
      s2  == env_render(s1)
  IN  IF render_mode = "list" /\ Len(out) = 0
      THEN [s2 EXCEPT !.ev.warns = @ + 1, !.ev.cap = "empty", !.ev.last = "capture"]
      ELSE
        LET s3 == IF render_mode = "list"
                  THEN [s2 EXCEPT !.render_history = history_after(@, out),
                                  !.ev.drained = out]
                  ELSE s2
            frame == Last(out)
        IN  IF frame.ok
            THEN
              LET shape == get_concat_frame_shape(num_envs, frame_shape[1],
                             frame_shape[2], video_aspect_ratio, float_tie)
                  s4 == IF s3.frame_cols = -1 \/ s3.frame_rows = -1
                        THEN [s3 EXCEPT !.frame_rows = shape[1], !.frame_cols = shape[2]]
                        ELSE s3
              IN  [s4 EXCEPT !.recorded_frames = Append(@, concat_frames(s4, frame)),
                             !.ev.cap = "grid", !.ev.last = "capture"]
            ELSE
              LET s4 == stop_recording(s3)
              IN  [s4 EXCEPT !.ev.warns = @ + 1, !.ev.cap = "bad",
                             !.ev.cap_buffered = Len(s3.recorded_frames),
                             !.ev.cap_writes = s4.ev.writes - s3.ev.writes,
                             !.ev.last = "capture"]

\* mutant: the length of the buffer is never checked
capture_and_trim_notrim(s) == IF s.recording THEN capture_frame(s) ELSE s

\* mutant: the recording is stopped once more after a malformed frame
capture_and_trim_stops_twice(s) ==
  IF s.recording
  THEN LET c == capture_frame(s)
       IN  IF exceeds(Len(c.recorded_frames), video_length) \/ c.ev.cap = "bad"
           THEN stop_recording(c) ELSE c
  ELSE s

\* `if self.recording: self._capture_frame(); if len(...) > video_length: stop`
capture_and_trim(s) ==
  IF s.recording
  THEN LET c == capture_frame(s)
       IN  IF exceeds(Len(c.recorded_frames), video_length)
           THEN stop_recording(c) ELSE c
  ELSE s

\* mutant: the episode trigger is asked before episode_id is incremented
reset_trigger_early(s0, ok) ==
  LET s1 == env_reset(s0, ok)
      s2 == IF s1.recording /\ video_length = 0 THEN stop_recording(s1) ELSE s1
      s3 == IF trigger(episode_trigger, s2.episode_id)
            THEN start_recording(s2, EpisodeName(s2.episode_id)) ELSE s2
      s4 == [s3 EXCEPT !.episode_id = @ + 1]
  IN  capture_and_trim(s4)

\* mutant: a reset never stops the recording of the episode before
reset_keeps_recording(s0, ok) ==
  LET s1 == env_reset(s0, ok)
      s2 == [s1 EXCEPT !.episode_id = @ + 1]
      s4 == IF trigger(episode_trigger, s2.episode_id) /\ ~s2.recording
            THEN start_recording(s2, EpisodeName(s2.episode_id)) ELSE s2
  IN  capture_and_trim(s4)

\* reset()
reset(s0, ok) ==
  LET s1 == env_reset(s0, ok)
      s2 == [s1 EXCEPT !.episode_id = @ + 1]
      s3 == IF s2.recording /\ video_length = 0 THEN stop_recording(s2) ELSE s2
      s4 == IF trigger(episode_trigger, s3.episode_id)
            THEN start_recording(s3, EpisodeName(s3.episode_id)) ELSE s3
  IN  capture_and_trim(s4)

\* mutant: step_id is not incremented
step_nocount(s0, ok) ==
  LET s1 == env_step(s0, ok)
      s3 == IF trigger(step_trigger, s1.step_id)
            THEN start_recording(s1, StepName(s1.step_id)) ELSE s1
  IN  capture_and_trim(s3)

\* step(action)
step(s0, ok) ==
  LET s1 == env_step(s0, ok)
      s2 == [s1 EXCEPT !.step_id = @ + 1]
      s3 == IF trigger(step_trigger, s2.step_id)
            THEN start_recording(s2, StepName(s2.step_id)) ELSE s2
  IN  capture_and_trim(s3)

\* mutant: the render result is buffered whether recording or not
render_always_buffers(s0) ==
  LET render_out == env_render_out(s0)
      s1 == env_render(s0)
      s2 == IF render_mode = "list"
            THEN [s1 EXCEPT !.recorded_frames = @ \o raw_entries(s1, render_out)]
            ELSE s1
  IN  IF Len(s2.render_history) > 0
      THEN [s2 EXCEPT !.render_history = <<>>,
                      !.ev.ret = s2.render_history \o render_out,
                      !.ev.env_ret = render_out]
      ELSE [s2 EXCEPT !.ev.ret = render_out, !.ev.env_ret = render_out]

\* mutant: render returns the history without clearing it
render_keeps_history(s0) ==
  LET render_out == env_render_out(s0)
      s1 == env_render(s0)
      s2 == IF s1.recording /\ render_mode = "list"
            THEN [s1 EXCEPT !.recorded_frames = @ \o raw_entries(s1, render_out)]
            ELSE s1
  IN  IF Len(s2.render_history) > 0
      THEN [s2 EXCEPT !.ev.ret = s2.render_history \o render_out,
                      !.ev.env_ret = render_out]
      ELSE [s2 EXCEPT !.ev.ret = render_out, !.ev.env_ret = render_out]

\* render()
render(s0) ==
  LET render_out == env_render_out(s0)
      s1 == env_render(s0)
      s2 == IF s1.recording /\ render_mode = "list"
            THEN [s1 EXCEPT !.recorded_frames = @ \o raw_entries(s1, render_out)]
            ELSE s1
  IN  IF Len(s2.render_history) > 0
      THEN [s2 EXCEPT !.render_history = <<>>,
                      !.ev.ret = s2.render_history \o render_out,
                      !.ev.env_ret = render_out]
      ELSE [s2 EXCEPT !.ev.ret = render_out, !.ev.env_ret = render_out]

\* mutant: an active recording is left as it is
close_noflush(s0) == [s0 EXCEPT !.env_closed = TRUE]

\* close()
close(s0) ==
  LET s1 == [s0 EXCEPT !.env_closed = TRUE]
  IN  IF s1.recording THEN stop_recording(s1) ELSE s1

\* ------------------------------------------------------------------ actions
Commit(s) ==
  /\ recording' = s.recording
  /\ video_name' = s.video_name
  /\ recorded_frames' = s.recorded_frames
  /\ render_history' = s.render_history
  /\ step_id' = s.step_id
  /\ episode_id' = s.episode_id
  /\ frame_rows' = s.frame_rows
  /\ frame_cols' = s.frame_cols
  /\ env_pending' = s.env_pending
  /\ env_current' = s.env_current
  /\ env_t' = s.env_t
  /\ env_closed' = s.env_closed
  /\ env_bad' = s.env_bad
  /\ files' = s.files
  /\ session' = s.session
  /\ ev' = s.ev
  /\ UNCHANGED cfgvars
  /\ UNCHANGED humanvars

\* what the next frame of the environment may be
FrameKinds == IF env_bad < MaxBadFrames THEN BOOLEAN ELSE {TRUE}

Reset ==
  /\ ~env_closed
  /\ calls < MaxCalls
  /\ \E ok \in FrameKinds : Commit(reset(Begin("reset"), ok))
  /\ calls' = calls + 1

Step ==
  /\ ~env_closed
  /\ calls < MaxCalls
  /\ \E ok \in FrameKinds : Commit(step(Begin("step"), ok))
  /\ calls' = calls + 1

Render ==
  /\ ~env_closed
  /\ Commit(render(Begin("render")))
  /\ UNCHANGED calls

Close ==
  /\ Commit(close(Begin("close")))
  /\ UNCHANGED calls

StartRecording ==
  /\ ~env_closed
  /\ calls < MaxCalls
  /\ Commit(start_recording(Begin("start_recording"), UserName))
  /\ calls' = calls + 1

StopRecording ==
  /\ ~env_closed
  /\ recording
  /\ Commit(stop_recording(Begin("stop_recording")))
  /\ UNCHANGED calls

\* None, for the two sizes of HumanRendering
NoSize == <<0, 0>>

\* the state HumanRendering.__init__ leaves, screen_size apart
HumanConstructed ==
  /\ scaled_subenv_size = NoSize
  /\ num_rows = 0
  /\ num_cols = 0
  /\ window = FALSE
  /\ clock = FALSE
  /\ hev = [op |-> "init", raised |-> FALSE, laid |-> FALSE, quits |-> 0]

\* a session that wraps the environment in RecordVideo
RecordSession ==
  /\ wrapper = "record"
  /\ screen_size = NoSize
  /\ HumanConstructed

\* the state __init__ leaves, the configuration apart
Constructed ==
  /\ recording = FALSE
  /\ video_name = NoName
  /\ recorded_frames = <<>>
  /\ render_history = <<>>
  /\ step_id = -1
  /\ episode_id = -1
  /\ frame_rows = -1
  /\ frame_cols = -1
  /\ env_pending = <<>>
  /\ env_current = NoFrame
  /\ env_t = 0
  /\ env_closed = FALSE
  /\ env_bad = 0
  /\ files = <<>>
  /\ session = 0
  /\ calls = 0
  /\ ev = Self.ev

Init ==
  /\ render_mode \in {"single", "list"}
  /\ num_envs = SessionEnvs
  /\ frame_shape = <<1, 1>>
  /\ video_aspect_ratio = <<1, 1>>
  /\ float_tie = FALSE
  /\ \E et \in {"none", "always", "even"}, st \in {"none", "always", "even"} :
       /\ episode_trigger = init_episode_trigger(et, st)
       /\ step_trigger = st
  /\ video_length \in 0..MaxLength
  /\ Constructed
  /\ RecordSession

Next == Reset \/ Step \/ Render \/ Close \/ StartRecording \/ StopRecording

Spec == Init /\ [][Next]_vars

\* ---------------------------------------------- sessions driven by triggers
\* reset, step, render and close only: no public start_recording or
\* stop_recording call
NextAuto == Reset \/ Step \/ Render \/ Close

SpecAuto == Init /\ [][NextAuto]_vars

\* ------------------------------------------------- the episode-by-episode run
\* One reset, then one or more steps, episode after episode, then close;
\* whole episodes are recorded (video_length 0) on an episode trigger alone,
\* and the environment renders well-formed frames.  In a list render mode
\* nobody renders between the captures, so the frames of the episodes not
\* recorded stay in the environment and then in render_history; there every
\* episode but the last has MaxEpisodeLen steps, which keeps the run's states
\* few; in a single-frame mode an episode has one step or MaxEpisodeLen
\* steps.  The last episode is closed after any number of steps from 1 on.
RunInit ==
  /\ render_mode \in {"single", "list"}
  /\ num_envs = SessionEnvs
  /\ frame_shape = <<1, 1>>
  /\ video_aspect_ratio = <<1, 1>>
  /\ float_tie = FALSE
  /\ episode_trigger \in {"mod10", "cubic"}
  /\ step_trigger = "none"
  /\ video_length = 0
  /\ Constructed
  /\ RecordSession

RunReset ==
  /\ ~env_closed
  /\ \/ episode_id = -1
     \/ env_t = 1 /\ render_mode = "single"
     \/ env_t = MaxEpisodeLen
  /\ episode_id + 1 < RunEpisodes
  /\ Commit(reset(Begin("reset"), TRUE))
  /\ UNCHANGED calls

RunStep ==
  /\ ~env_closed
  /\ episode_id >= 0
  /\ env_t < MaxEpisodeLen
  /\ Commit(step(Begin("step"), TRUE))
  /\ UNCHANGED calls

RunClose ==
  /\ ~env_closed
  /\ episode_id >= 0
  /\ env_t >= 1
  /\ Commit(close(Begin("close")))
  /\ UNCHANGED calls

RunNext == RunReset \/ RunStep \/ RunClose

SpecRun == RunInit /\ [][RunNext]_vars

\* ------------------------------------------------------- the grid search alone
\* The first reset of a session that records every episode captures the
\* first frame and so runs _get_concat_frame_shape on the session's
\* num_envs, sub-frame shape and video_aspect_ratio.
ShapeInit ==
  /\ render_mode \in {"single", "list"}
  /\ num_envs \in 1..MaxShapeEnvs
  /\ frame_shape \in (1..MaxDim) \X (1..MaxDim)
  /\ video_aspect_ratio \in (1..MaxRatio) \X (1..MaxRatio)
  /\ float_tie \in BOOLEAN
  /\ episode_trigger = "always"
  /\ step_trigger = "none"
  /\ video_length = 0
  /\ Constructed
  /\ RecordSession

ShapeReset ==
  /\ episode_id = -1
  /\ Commit(reset(Begin("reset"), TRUE))
  /\ UNCHANGED calls

ShapeNext == ShapeReset

SpecShape == ShapeInit /\ [][ShapeNext]_vars

\* ------------------------------------------------------------------- claims
FileNames == [i \in 1..Len(files) |-> files[i].name]

OneSession(frames) ==
  \A i \in 1..Len(frames) : frames[i].session = frames[1].session

\* C1: when start_recording is called while a recording is active, the active
\* recording is stopped and flushed before the new one begins (the buffer is
\* empty when start_recording returns), so the frames of every written file,
\* and of the buffer, were all appended during one recording session.
C1_SessionsNeverMixed ==
  /\ \A k \in 1..Len(files) : OneSession(files[k].frames)
  /\ \A i \in 1..Len(recorded_frames) : recorded_frames[i].session = session
  /\ ev.last = "start" /\ ev.cap = "none" => recorded_frames = <<>> /\ recording

\* a start_recording call met an active recording with frames and flushed it
C1_Witness ==
  /\ ev.op = "start_recording"
  /\ ev.stops = 1
  /\ ev.writes = 1
  /\ recording
  /\ Len(files[Len(files)].frames) >= 2

\* C2: with a finite video_length L >= 1, over reset, step, render and close
\* calls, every frame sequence handed to the encoder has at most L+1 frames.
C2_AtMostLPlusOne ==
  video_length >= 1 =>
    \A k \in 1..Len(files) : Len(files[k].frames) <= video_length + 1

\* a file of exactly L+1 frames was written
C2_Witness ==
  /\ video_length >= 1
  /\ \E k \in 1..Len(files) : Len(files[k].frames) = video_length + 1

\* C3: when stop_recording returns, recorded_frames is empty, recording is
\* false and the video name is cleared, whether a file was written (the
\* buffer held frames) or not (the buffer was empty).
C3_StopLeavesIdle ==
  (ev.last = "stop" \/ ev.cap = "bad") =>
    /\ recorded_frames = <<>>
    /\ ~recording
    /\ video_name = NoName

\* a stop_recording that wrote nothing, after an earlier one that wrote a file
C3_Witness ==
  /\ ev.op = "stop_recording"
  /\ ev.last = "stop"
  /\ ev.writes = 0
  /\ ev.warns = 1
  /\ Len(files) >= 1

\* C4 as stated: render called while not recording changes nothing of the
\* recorder and returns exactly what the environment's render returned.
C4_Original ==
  [][(ev'.op = "render" /\ ~recording) =>
       /\ ev'.ret = ev'.env_ret
       /\ recorded_frames' = recorded_frames
       /\ render_history' = render_history]_vars

\* C4 amended: render called while not recording leaves recorded_frames,
\* recording, the video name and the written files as they were; it returns
\* render_history followed by what the environment's render returned, and
\* empties render_history (so with an empty render_history the
\* environment's value is returned unchanged).
C4_RenderWhileIdle ==
  [][(ev'.op = "render" /\ ~recording) =>
       /\ recorded_frames' = recorded_frames
       /\ recording' = recording
       /\ video_name' = video_name
       /\ files' = files
       /\ ev'.ret = render_history \o ev'.env_ret
       /\ render_history' = <<>>]_vars

\* render, not recording, after a list-mode recording has ended: the history
\* is replayed before the environment's frames
C4_Witness ==
  /\ ev.op = "render"
  /\ ~recording
  /\ Len(files) >= 1
  /\ Len(ev.env_ret) >= 1
  /\ Len(ev.ret) > Len(ev.env_ret)

RECURSIVE TriggeredEpisodes(_)
\* the names of the episodes 0..e the episode trigger holds for, in order
TriggeredEpisodes(e) ==
  IF e < 0 THEN <<>>
  ELSE TriggeredEpisodes(e - 1)
         \o (IF trigger(episode_trigger, e) THEN <<EpisodeName(e)>> ELSE <<>>)

\* C5: unbounded video_length, an episode trigger only, K episodes of one
\* reset and one or more steps each, then close: the files written are, in
\* order, one per episode e in 0..K-1 the trigger holds for, and no others;
\* with the trigger e % 10 == 0 and K = 50 they are the 5 files of the
\* episodes 0, 10, 20, 30 and 40.
C5_OneFilePerTriggeredEpisode ==
  env_closed =>
    /\ FileNames = TriggeredEpisodes(episode_id)
    /\ (episode_trigger = "mod10" /\ episode_id = 49) =>
         FileNames = <<EpisodeName(0), EpisodeName(10), EpisodeName(20),
                       EpisodeName(30), EpisodeName(40)>>

\* the run of 50 episodes under e % 10 == 0, closed, with its 5 files
C5_Witness ==
  /\ env_closed
  /\ episode_trigger = "mod10"
  /\ episode_id = 49
  /\ Len(files) = 5

\* C6 as stated: when _capture_frame meets a frame that is not a tuple, the
\* recording is stopped without any file being written, whatever was
\* buffered; recording is false, a warning is issued, the call returns.
C6_Original ==
  ev.cap = "bad" =>
    /\ ev.cap_writes = 0
    /\ ~recording
    /\ ev.warns >= 1
    /\ ~ev.failed

\* C6 amended: when _capture_frame meets a frame that is not a tuple, the
\* recording is stopped by stop_recording: the frames buffered before are
\* written to the recording's file when there are any, and no file is
\* written when the buffer was empty; the malformed frame is not buffered,
\* recording is false, a warning is issued and the call returns normally.
C6_BadFrameStopsRecording ==
  ev.cap = "bad" =>
    /\ ev.cap_writes = (IF ev.cap_buffered = 0 THEN 0 ELSE 1)
    /\ ev.cap_writes = 1 => Len(files[Len(files)].frames) = ev.cap_buffered
    /\ \A k \in 1..Len(files) : \A i \in 1..Len(files[k].frames) :
         ~(files[k].frames[i].ep = env_current.ep /\ files[k].frames[i].t = env_current.t)
    /\ recorded_frames = <<>>
    /\ ~recording
    /\ ev.warns >= 1
    /\ ~ev.failed

\* a malformed frame met with frames in the buffer: they were written
C6_Witness ==
  /\ ev.cap = "bad"
  /\ ev.cap_buffered >= 1
  /\ ev.cap_writes = 1

\* C7 as stated: of a non-empty list of k frames _capture_frame appends the
\* first k-1 to render_history.
C7_Original ==
  [][(ev'.op \in {"reset", "step"} /\ Len(ev'.drained) >= 1) =>
       render_history' = render_history \o AllButLast(ev'.drained)]_vars

\* C7 amended: of a non-empty list of k frames _capture_frame appends all k
\* entries to render_history, and the last of them is the frame of this
\* instant (the one composed and buffered when it is well formed; it is the
\* last frame of the buffer, or of the file just written when the capture
\* filled the clip).
C7_HistoryTakesAll ==
  [][(ev'.op \in {"reset", "step"} /\ Len(ev'.drained) >= 1) =>
       /\ render_history' = render_history \o ev'.drained
       /\ ev'.cap = "grid" =>
            LET e == IF recorded_frames' # <<>>
                     THEN recorded_frames'[Len(recorded_frames')]
                     ELSE Last(files'[Len(files')].frames)
                f == ev'.drained[Len(ev'.drained)]
            IN  e.ep = f.ep /\ e.t = f.t /\ e.kind = "grid"]_vars

\* a capture that drained two or more frames and buffered the last
C7_Witness ==
  /\ ev.op \in {"reset", "step"}
  /\ Len(ev.drained) >= 2
  /\ ev.cap = "grid"
  /\ Len(render_history) >= Len(ev.drained)

GridShape == <<frame_rows * frame_shape[1], frame_cols * frame_shape[2]>>

IsGrid(e) == e.kind = "grid" /\ e.shape = GridShape

\* C8: over reset, step, render and close calls, in either kind of render
\* mode, every entry of every frame sequence handed to the encoder, and of
\* the buffer, is a composed grid frame of shape rows*h by cols*w, so all
\* are equally shaped and none is a raw render result.
C8_OnlyGridFrames ==
  /\ \A k \in 1..Len(files) : \A i \in 1..Len(files[k].frames) :
       IsGrid(files[k].frames[i])
  /\ \A i \in 1..Len(recorded_frames) : IsGrid(recorded_frames[i])

\* a list-mode session in which render was called during a recording whose
\* frames were then written
C8_Witness ==
  /\ render_mode = "list"
  /\ ev.op = "render"
  /\ recording
  /\ Len(recorded_frames) >= 1
  /\ Len(files) >= 1

\* C9: close closes the wrapped environment and, if a recording is active,
\* flushes it: afterwards recording is false and the buffer empty; a
\* non-empty buffer was written, exactly as it was, under the active
\* recording's name, and otherwise nothing was written; a close after a
\* close stops and writes nothing.
C9_CloseFlushes ==
  [][ev'.op = "close" =>
       /\ env_closed'
       /\ ~recording'
       /\ recorded_frames' = <<>>
       /\ files' = IF recording /\ recorded_frames # <<>>
                   THEN Append(files, [name |-> video_name, frames |-> recorded_frames])
                   ELSE files
       /\ env_closed => ev'.stops = 0 /\ ev'.writes = 0]_vars

\* a close that flushed an active recording with frames
C9_Witness ==
  /\ ev.op = "close"
  /\ ev.stops = 1
  /\ ev.writes = 1
  /\ Len(files[Len(files)].frames) >= 1

\* C10 as stated: the pair _get_concat_frame_shape chooses is as close to
\* the target aspect ratio as any pair (r, c) with r * c = N.
C10_Original ==
  frame_cols # -1 =>
    \A r \in 1..num_envs :
      num_envs % r = 0 =>
        ~DiffLess(r, num_envs \div r, frame_rows, frame_cols,
                  frame_shape[1], frame_shape[2], video_aspect_ratio)


\* C11: _get_concat_frame_shape sets frame_rows and frame_cols with
\* frame_rows * frame_cols = N and frame_cols a divisor of N, so that
\* _concat_frames places every one of the N sub-frames (row idx // frame_cols,
\* column idx % frame_cols) inside the grid and leaves no cell empty.
C11_ExactTiling ==
  frame_cols # -1 =>
    /\ frame_rows >= 1
    /\ frame_cols >= 1
    /\ frame_rows * frame_cols = num_envs
    /\ num_envs % frame_cols = 0
    /\ \A idx \in 0..(num_envs - 1) : idx \div frame_cols < frame_rows

\* the search chose a grid of more than one row
C11_Witness ==
  /\ frame_cols # -1
  /\ num_envs = 6
  /\ frame_rows = 2
  /\ frame_cols = 3


\* ------------------------------------------------------------ HumanRendering
\* Python floats are IEEE doubles.  A quotient n / d of two small integers is
\* exact when the reduced denominator is a power of two; otherwise it is
\* rounded, and an equality or an integer part that holds for the exact
\* quotient may or may not hold for the rounded one.
RECURSIVE gcd(_, _)
gcd(a, b) == IF b = 0 THEN a ELSE gcd(b, a % b)

RECURSIVE IsPow2(_)
IsPow2(x) == x = 1 \/ (x % 2 = 0 /\ IsPow2(x \div 2))

Dyadic(n, d) == IsPow2(d \div gcd(n, d))

\* how row_ratio = rows * (h / H) compares with col_ratio = cols * (w / W)
ratio_outcomes(rows, cols, w, h, W, H) ==
  LET a == rows * h * W
      b == cols * w * H
  IN  IF a > b THEN {"gt"}
      ELSE IF a < b THEN {"lt"}
      ELSE IF rows = cols \/ (Dyadic(h, H) /\ Dyadic(w, W)) THEN {"eq"}
      ELSE {"eq", "gt", "lt"}

\* the layouts the padding search can end with, started from rows x cols
RECURSIVE padding_layouts(_, _, _, _, _, _, _)
padding_layouts(rows, cols, N, w, h, W, H) ==
  IF rows * cols >= N THEN {<<rows, cols>>}
  ELSE UNION {
         IF o = "eq" THEN padding_layouts(rows + 1, cols + 1, N, w, h, W, H)
         ELSE IF o = "gt" THEN padding_layouts(rows, cols + 1, N, w, h, W, H)
         ELSE padding_layouts(rows + 1, cols, N, w, h, W, H)
         : o \in ratio_outcomes(rows, cols, w, h, W, H)}

\* scaling_factor as the fraction <<numerator, denominator>>
scaling_factor(lay, w, h, W, H) ==
  IF W * (lay[1] * h) <= H * (lay[2] * w)
  THEN <<W, lay[2] * w>>
  ELSE <<H, lay[1] * h>>

\* whether the assertion that one side of the grid fills the screen passes
tight_outcomes(sf) == IF Dyadic(sf[1], sf[2]) THEN {TRUE} ELSE BOOLEAN

\* int(x * scaling_factor)
scaled_outcomes(x, sf) ==
  LET p == x * sf[1]
      q == p \div sf[2]
  IN  IF p % sf[2] = 0 /\ ~Dyadic(sf[1], sf[2]) THEN {q - 1, q} ELSE {q}


HumanSelf ==
  [screen_size |-> screen_size, scaled_subenv_size |-> scaled_subenv_size,
   num_rows |-> num_rows, num_cols |-> num_cols,
   window |-> window, clock |-> clock, env_closed |-> env_closed,
   hev |-> [op |-> "init", raised |-> FALSE, laid |-> FALSE,
            quits |-> hev.quits]]

HumanBegin(op) == [HumanSelf EXCEPT !.hev.op = op]

\* the size <<width, height>> of one sub-frame after the transpose
subenv_size == <<frame_shape[2], frame_shape[1]>>

\* the screen the layout is searched for
screen_of(s) == IF s.screen_size = NoSize THEN subenv_size ELSE s.screen_size

\* the part of _render_frame after the layout: scaling, window, clock, blit
draw(s) ==
  IF s.scaled_subenv_size[1] = 0 \/ s.scaled_subenv_size[2] = 0
  THEN [s EXCEPT !.hev.raised = TRUE]
  ELSE [s EXCEPT !.window = TRUE, !.clock = TRUE]

\* mutant: the layout is searched for every frame
render_frame_relayout(s, ok, lay, tight, size) ==
  IF ~ok THEN [s EXCEPT !.hev.raised = TRUE]
  ELSE LET s1 == [s EXCEPT !.screen_size = screen_of(s)]
       IN  IF ~tight
           THEN [s1 EXCEPT !.hev.raised = TRUE, !.hev.laid = TRUE]
           ELSE draw([s1 EXCEPT !.num_rows = lay[1],
                                !.num_cols = lay[2],
                                !.scaled_subenv_size = size,
                                !.hev.laid = TRUE])

\* _render_frame; ok: the frames env.render() returned are well formed;
\* lay, tight, size: the results of the float computations of the layout
render_frame(s, ok, lay, tight, size) ==
  IF ~ok THEN [s EXCEPT !.hev.raised = TRUE]
  ELSE LET s1 == [s EXCEPT !.screen_size = screen_of(s)]
       IN  IF s1.scaled_subenv_size # NoSize THEN draw(s1)
           ELSE IF ~tight
                THEN [s1 EXCEPT !.hev.raised = TRUE, !.hev.laid = TRUE]
                ELSE draw([s1 EXCEPT !.num_rows = lay[1],
                                     !.num_cols = lay[2],
                                     !.scaled_subenv_size = size,
                                     !.hev.laid = TRUE])

\* HumanRendering.close
human_close(s) ==
  LET s1 == IF s.window THEN [s EXCEPT !.hev.quits = @ + 1] ELSE s
  IN  [s1 EXCEPT !.env_closed = TRUE]

HumanCommit(s) ==
  /\ screen_size' = s.screen_size
  /\ scaled_subenv_size' = s.scaled_subenv_size
  /\ num_rows' = s.num_rows
  /\ num_cols' = s.num_cols
  /\ window' = s.window
  /\ clock' = s.clock
  /\ env_closed' = s.env_closed
  /\ hev' = s.hev
  /\ UNCHANGED wrapper
  /\ UNCHANGED cfgvars
  /\ UNCHANGED <<recording, video_name, recorded_frames, render_history,
                 step_id, episode_id, frame_rows, frame_cols, env_pending,
                 env_current, env_t, env_bad, files, session, calls, ev>>

\* one call of _render_frame with every outcome the floats can have
HumanRender(op) ==
  LET s  == HumanBegin(op)
      w  == subenv_size[1]
      h  == subenv_size[2]
      W  == screen_of(s)[1]
      H  == screen_of(s)[2]
  IN  \E ok \in BOOLEAN :
      \E lay \in padding_layouts(1, 1, num_envs, w, h, W, H) :
      LET sf == scaling_factor(lay, w, h, W, H)
      IN  \E tight \in tight_outcomes(sf) :
          \E sw \in scaled_outcomes(w, sf), sh \in scaled_outcomes(h, sf) :
            HumanCommit(render_frame(s, ok, lay, tight, <<sw, sh>>))

HumanReset ==
  /\ wrapper = "human"
  /\ ~env_closed
  /\ HumanRender("reset")

HumanStep ==
  /\ wrapper = "human"
  /\ ~env_closed
  /\ HumanRender("step")

HumanClose ==
  /\ wrapper = "human"
  /\ hev.quits < MaxQuits
  /\ HumanCommit(human_close(HumanBegin("close")))

\* sub-frame shapes <<h, w>> and screens <<W, H>> whose quotients round
RoundedShapes == {<<11, 1>>, <<23, 3>>}
RoundedScreens == {<<2, 15>>, <<2, 39>>}

HumanInit ==
  /\ render_mode = "single"
  /\ num_envs \in 1..MaxHumanEnvs
  /\ frame_shape \in ((1..MaxPix) \X (1..MaxPix)) \cup RoundedShapes
  /\ video_aspect_ratio = <<1, 1>>
  /\ float_tie = FALSE
  /\ episode_trigger = "none"
  /\ step_trigger = "none"
  /\ video_length = 0
  /\ Constructed
  /\ wrapper = "human"
  /\ screen_size \in {NoSize} \cup ((1..MaxScreen) \X (1..MaxScreen))
                     \cup RoundedScreens
  /\ HumanConstructed

HumanNext == HumanReset \/ HumanStep \/ HumanClose

SpecHuman == HumanInit /\ [][HumanNext]_vars

\* C12: for every num_envs, sub-frame size and screen size, a reset or step
\* that gets well-formed frames ends with a layout (no assertion of the layout
\* search fails), the
\* layout has num_rows * num_cols >= num_envs, the scaled grid fits the screen
\* in both dimensions, and it is tight in one of them: the unused width is
\* less than num_cols or the unused height is less than num_rows.
C12_Original ==
  (hev.op \in {"reset", "step"} /\ hev.laid) =>
    /\ scaled_subenv_size # NoSize
    /\ num_rows * num_cols >= num_envs
    /\ scaled_subenv_size[1] * num_cols <= screen_size[1]
    /\ scaled_subenv_size[2] * num_rows <= screen_size[2]
    /\ \/ screen_size[1] - scaled_subenv_size[1] * num_cols < num_cols
       \/ screen_size[2] - scaled_subenv_size[2] * num_rows < num_rows


\* the two ways the layout search departs from C12 on inputs where IEEE doubles
\* do so: the tightness assertion fails, and a scaled side is one pixel short
C12_AssertionFails ==
  /\ num_envs = 1 /\ frame_shape = <<11, 1>> /\ screen_size = <<2, 15>>
  /\ hev.laid /\ hev.raised /\ scaled_subenv_size = NoSize

C12_OnePixelShort ==
  /\ num_envs = 3 /\ frame_shape = <<23, 3>> /\ screen_size = <<2, 39>>
  /\ num_rows = 3 /\ num_cols = 1 /\ scaled_subenv_size = <<1, 12>>
  /\ window


\* C13: HumanRendering.close releases the display exactly when a window was
\* opened, and a second or later close releases nothing more: after any close
\* the display has been released once if there is a window, and never
\* otherwise.
C13_Original ==
  hev.op = "close" => hev.quits = (IF window THEN 1 ELSE 0)


\* --------------------------------------------- sessions of either wrapper
LayoutInit == Init \/ HumanInit

LayoutNext == (wrapper = "record" /\ Next) \/ HumanNext

SpecLayout == LayoutInit /\ [][LayoutNext]_vars

\* C14: once frame_rows and frame_cols (RecordVideo) or num_rows, num_cols and
\* scaled_subenv_size (HumanRendering) are set, no later call changes them,
\* and no later call of HumanRendering searches the layout again.
C14_LayoutSetOnce ==
  [][/\ (frame_rows # -1 \/ frame_cols # -1) =>
          (frame_rows' = frame_rows /\ frame_cols' = frame_cols)
     /\ scaled_subenv_size # NoSize =>
          /\ num_rows' = num_rows
          /\ num_cols' = num_cols
          /\ scaled_subenv_size' = scaled_subenv_size
          /\ ~hev'.laid]_vars

\* a later step of HumanRendering drew with the layout of an earlier call
C14_Witness ==
  /\ scaled_subenv_size # NoSize
  /\ num_rows * num_cols > 1
  /\ hev.op = "step"
  /\ ~hev.laid
  /\ window


\* C15: episode_id and step_id start at -1; a reset adds 1 to episode_id and
\* leaves step_id, a step adds 1 to step_id and leaves episode_id, every other
\* call leaves both; so the first index a trigger sees, and a recording is
\* named after, is 0.
C15_Counters ==
  /\ episode_id = -1
  /\ step_id = -1
  /\ [][/\ ev'.op = "reset" =>
             (episode_id' = episode_id + 1 /\ step_id' = step_id)
        /\ ev'.op = "step" =>
             (step_id' = step_id + 1 /\ episode_id' = episode_id)
        /\ ev'.op \notin {"reset", "step"} =>
             (episode_id' = episode_id /\ step_id' = step_id)]_vars
  /\ [](/\ episode_id >= -1
        /\ step_id >= -1
        /\ recording => video_name.idx >= 0
        /\ \A i \in 1..Len(files) : files[i].name.idx >= 0)

\* two resets and two steps were counted, and the first step named a file
C15_Witness ==
  /\ episode_id = 1
  /\ step_id = 1
  /\ Len(files) >= 1
  /\ files[1].name = StepName(0)

\* C16: stop_recording (called by the user or by close) on a recording with
\* no buffered frame writes no file, warns once, fails no assertion and leaves
\* recording false, the name cleared and the buffer empty.
C16_EmptyStop ==
  [][(/\ ev'.op \in {"stop_recording", "close"}
      /\ recording
      /\ recorded_frames = <<>>) =>
       /\ files' = files
       /\ ev'.writes = 0
       /\ ev'.warns = 1
       /\ ev'.stops = 1
       /\ ~ev'.failed
       /\ ~recording'
       /\ video_name' = NoName
       /\ recorded_frames' = <<>>]_vars

\* a recording started by the user was stopped before any frame came
C16_Witness ==
  /\ ev.op = "stop_recording"
  /\ ev.stops = 1
  /\ ev.writes = 0
  /\ ev.warns = 1
  /\ files = <<>>
  /\ session = 1
  /\ ~recording


SingleEpisode(frames) ==
  \A i \in 1..Len(frames) : frames[i].episode = frames[1].episode

IsPrefix(a, b) == Len(a) <= Len(b) /\ SubSeq(b, 1, Len(a)) = a

\* with unbounded video_length, a reset while recording writes the buffered
\* frames to a file of their own and nothing of an earlier episode stays in
\* the buffer; every file and the buffer hold frames of one episode_id
C17_WholeEpisodes ==
  /\ [](video_length = 0 =>
          /\ \A k \in 1..Len(files) : SingleEpisode(files[k].frames)
          /\ \A i \in 1..Len(recorded_frames) :
               recorded_frames[i].episode = episode_id)
  /\ [][(ev'.op = "reset" /\ recording /\ video_length = 0) =>
          /\ ev'.stops >= 1
          /\ recorded_frames # <<>> =>
               /\ Len(files') > Len(files)
               /\ files'[Len(files) + 1] =
                    [name |-> video_name, frames |-> recorded_frames]]_vars

\* C17 as stated: the above, and with a finite video_length a reset whose
\* trigger is false leaves the recording going, under its name, with the
\* frames it had buffered.
C17_Original ==
  /\ C17_WholeEpisodes
  /\ [][(/\ ev'.op = "reset"
         /\ recording
         /\ video_length >= 1
         /\ ~trigger(episode_trigger, episode_id + 1)) =>
          /\ recording'
          /\ video_name' = video_name
          /\ IsPrefix(recorded_frames, recorded_frames')]_vars

\* C17: as C17_WholeEpisodes for unbounded video_length; with a finite
\* video_length a reset whose trigger is false does not stop the recording
\* before it captures: either the recording goes on with the frame of the reset
\* appended to the buffered frames, or it ends in that reset because that
\* frame is malformed or the buffer now exceeds video_length, and then the
\* buffered frames (followed by the new frame, if well formed) are what is
\* written, under the recording's name.
C17_ResetAndRecording ==
  /\ C17_WholeEpisodes
  /\ [][(/\ ev'.op = "reset"
         /\ recording
         /\ video_length >= 1
         /\ ~trigger(episode_trigger, episode_id + 1)) =>
          \/ /\ recording'
             /\ video_name' = video_name
             /\ Len(recorded_frames') = Len(recorded_frames) + 1
             /\ IsPrefix(recorded_frames, recorded_frames')
             /\ Len(recorded_frames') <= video_length
             /\ files' = files
          \/ /\ ~recording'
             /\ recorded_frames' = <<>>
             /\ ev'.cap = "grid"
             /\ Len(files') = Len(files) + 1
             /\ Last(files').name = video_name
             /\ Len(Last(files').frames) = Len(recorded_frames) + 1
             /\ Len(Last(files').frames) > video_length
             /\ IsPrefix(recorded_frames, Last(files').frames)
          \/ /\ ~recording'
             /\ recorded_frames' = <<>>
             /\ ev'.cap = "bad"
             /\ IF recorded_frames = <<>> THEN files' = files
                ELSE files' = Append(files, [name |-> video_name,
                                             frames |-> recorded_frames])]_vars

\* a reset with a false trigger ended a clip: the file holds frames of the
\* episode before and the frame of the new one
C17_Witness ==
  /\ video_length >= 1
  /\ ev.op = "reset"
  /\ ev.cap = "grid"
  /\ ev.writes = 1
  /\ ~recording
  /\ Len(files) >= 1
  /\ ~SingleEpisode(Last(files).frames)


\* C18: sessions driven by reset and step only.  Every file is named
\* episode-<e> or step-<s>; the name was given by the reset (step) call at
\* which episode_id was e (step_id was s) and the trigger was true for it; a
\* file is written under the name of the recording that is stopped; and no
\* two files of the session have the same name.
C18_FileNames ==
  /\ [](\A k \in 1..Len(files) :
          LET n == files[k].name
          IN  /\ n.kind \in {"episode", "step"}
              /\ n.kind = "episode" =>
                   /\ n.idx \in 0..episode_id
                   /\ trigger(episode_trigger, n.idx)
                   /\ files[k].frames[1].episode = n.idx
              /\ n.kind = "step" =>
                   /\ n.idx \in 0..step_id
                   /\ trigger(step_trigger, n.idx)
              /\ \A j \in 1..Len(files) : j # k => files[j].name # n)
  /\ [][/\ (video_name' # video_name /\ video_name' # NoName) =>
             \/ /\ ev'.op = "reset"
                /\ video_name' = EpisodeName(episode_id')
                /\ trigger(episode_trigger, episode_id')
             \/ /\ ev'.op = "step"
                /\ video_name' = StepName(step_id')
                /\ trigger(step_trigger, step_id')
        /\ \A k \in (Len(files) + 1)..Len(files') :
             files'[k].name = video_name]_vars

\* an episode-named file and a step-named file were written in one session
C18_Witness ==
  /\ Len(files) >= 2
  /\ \E j, k \in 1..Len(files) :
       /\ files[j].name.kind = "episode"
       /\ files[k].name.kind = "step"
       /\ files[k].name.idx >= 1


\* C19: between calls, recording is true exactly when a video name is set, an
\* idle recorder has an empty buffer, and once close has returned the
\* recorder is idle: the buffer is empty, so the warning of __del__ (buffer
\* not empty) cannot be due.
C19_IdleIsClean ==
  /\ recording <=> video_name # NoName
  /\ ~recording => recorded_frames = <<>>
  /\ env_closed => (~recording /\ recorded_frames = <<>>)

\* close returned on an idle recorder, after a recording that render had
\* added frames to in list mode
C19_Witness ==
  /\ env_closed
  /\ ~recording
  /\ recorded_frames = <<>>
  /\ render_mode = "list"
  /\ \E k \in 1..Len(files) :
       \E i \in 1..Len(files[k].frames) : files[k].frames[i].kind = "raw"


Unreturned == render_history \o env_pending

\* frame f was produced before frame g
Before(f, g) == f.ep < g.ep \/ (f.ep = g.ep /\ f.t < g.t)

InProductionOrder(q) ==
  \A i, j \in 1..Len(q) : i < j => Before(q[i], q[j])

\* C21: in a list render mode the frames not yet returned form a queue in
\* production order; a reset or a step appends the one frame it produced and
\* takes nothing out, whoever drains the environment; render returns the
\* whole queue, in order, and empties it; no other call touches it.  So the
\* lists render returns, put end to end, are the frames produced, each once
\* and in order, up to the last render.
C21_FrameStream ==
  /\ [](render_mode = "list" => InProductionOrder(Unreturned))
  /\ [][render_mode = "list" =>
          /\ ev'.op \in {"reset", "step"} =>
               /\ Unreturned' = Append(Unreturned, env_current')
               /\ env_current' \notin {Unreturned[i] : i \in 1..Len(Unreturned)}
          /\ ev'.op = "render" =>
               /\ ev'.ret = Unreturned
               /\ Unreturned' = <<>>
          /\ ev'.op \in {"start_recording", "stop_recording", "close"} =>
               Unreturned' = Unreturned]_vars

\* a render returned frames _capture_frame had drained, followed by frames it
\* drained itself
C21_Witness ==
  /\ render_mode = "list"
  /\ ev.op = "render"
  /\ Len(ev.env_ret) >= 1
  /\ Len(ev.ret) >= Len(ev.env_ret) + 2
  /\ render_history = <<>>
  /\ env_pending = <<>>

====
